---- MODULE Spec2Model ----
(***************************************************************************)
(* AddResourceModal (src/src/components/projects/AddResourceModal.tsx):    *)
(* a form that fetches resources and allocations once on mount, computes   *)
(* the quantity still available per resource, and inserts one allocation   *)
(* row per accepted submission.                                            *)
(*                                                                         *)
(* Quantities are integers.  For integer operands the source's floating    *)
(* point test  availableQty < resource.quantity * 0.2  agrees with the     *)
(* integer test  5 * availableQty < resource.quantity : the double nearest *)
(* to 0.2 is 0.2 * (1 + 2^-54), so q * 0.2 rounds to q/5 exactly when 5    *)
(* divides q and is at distance >= 0.2 from every integer otherwise.       *)
(***************************************************************************)
EXTENDS Integers, Sequences, FiniteSets, TLC

\* ---------------------------------------------------------------- bounds
\* Largest total quantity of a resource row, and largest quantity already
\* allocated per resource before mount, in the interactive specification.
MaxQuantity == 2
\* Largest total quantity of a resource row, calculator specification.
CalcMaxQuantity == 6
\* Largest number of allocation rows, calculator specification.
MaxAllocs == 2
\* Largest quantity of an allocation row, calculator specification.
MaxAllocQty == 3
\* Number of submit events explored per form instance.
MaxSubmits == 2

\* ------------------------------------------------------------ vocabulary
ResourceIds == <<"r1", "r2">>

projectId == "p1"

Null == [null |-> TRUE]

Range(s) == {s[i] : i \in 1..Len(s)}

AllocRows(maxQ) ==
    [resource_id : Range(ResourceIds), quantity : 1..maxQ,
     consumed : BOOLEAN, project_id : {"p0"}]

SeqsUpTo(S, n) == UNION {[1..k -> S] : k \in 0..n}

\* Values the user can type into the quantity input.
QuantityInputs == 0..(MaxQuantity + 1)

VARIABLES
    dbResources,        \* table resources, in name order
    dbAllocations,      \* table resource_allocations
    mounted,            \* the component instance is mounted
    fetchPc,            \* position of fetchResources: "resources", "allocations", "done"
    resourcesData,      \* response of the first select, held by fetchResources
    resources,          \* useState resources
    loading,            \* useState loading
    selectedResource,   \* useState selectedResource
    availableQuantity,  \* useState availableQuantity
    formValues,         \* react-hook-form values {resourceId, quantity}
    isSubmitting,       \* react-hook-form formState.isSubmitting
    effectPending,      \* the watchResourceId effect is scheduled and has not run
    inFlight,           \* insert requests sent and not yet answered
    lastToast,          \* title of the last toast
    submitEvents,       \* number of submit events handled
    insertRequests,     \* number of insert requests sent
    onResourceAddedCalls \* number of calls of the onResourceAdded prop

vars == <<dbResources, dbAllocations, mounted, fetchPc, resourcesData, resources,
          loading, selectedResource, availableQuantity, formValues,
          isSubmitting, effectPending, inFlight, lastToast, submitEvents,
          insertRequests, onResourceAddedCalls>>

dbVars == <<dbResources, dbAllocations>>
formVars == <<selectedResource, availableQuantity, formValues, isSubmitting,
              effectPending>>
submitVars == <<inFlight, submitEvents, insertRequests, onResourceAddedCalls>>

\* ------------------------------------------------- availability calculator
RECURSIVE SelectSeq2(_, _, _)
\* Array.prototype.filter with the predicate of lines 94-96.
SelectSeq2(s, id, i) ==
    IF i > Len(s) THEN <<>>
    ELSE IF s[i].resource_id = id /\ ~s[i].consumed
         THEN <<s[i]>> \o SelectSeq2(s, id, i + 1)
         ELSE SelectSeq2(s, id, i + 1)

allocationsOf_anyConsumed(allocationsData, id) ==
    SelectSeq(allocationsData, LAMBDA a : a.resource_id = id)

allocationsOf(allocationsData, id) == SelectSeq2(allocationsData, id, 1)

RECURSIVE reduceSum(_)
reduceSum(s) == IF s = <<>> THEN 0 ELSE Head(s).quantity + reduceSum(Tail(s))

allocatedQuantity(allocationsData, id) == reduceSum(allocationsOf(allocationsData, id))

statusOf_lowInclusive(availableQty, quantity) ==
    IF availableQty <= 0 THEN "Out of Stock"
    ELSE IF 5 * availableQty <= quantity THEN "Low Stock"
    ELSE "Available"

statusOf(availableQty, quantity) ==
    IF availableQty <= 0 THEN "Out of Stock"
    ELSE IF 5 * availableQty < quantity THEN "Low Stock"
    ELSE "Available"

withAvailability(resource, allocationsData) ==
    LET allocated == allocatedQuantity(allocationsData, resource.id)
        availableQty == resource.quantity - allocated
    IN  [id |-> resource.id, quantity |-> resource.quantity,
         allocated |-> allocated, available |-> availableQty,
         status |-> statusOf(availableQty, resource.quantity)]

resourcesWithAvailability(rs, allocationsData) ==
    [i \in 1..Len(rs) |-> withAvailability(rs[i], allocationsData)]

availableResources(rs, allocationsData) ==
    SelectSeq(resourcesWithAvailability(rs, allocationsData),
              LAMBDA r : r.available > 0)

\* ------------------------------------------------------------------ form
\* a || b on numbers.
OrElse(a, b) == IF a # 0 THEN a ELSE b

find(rs, id) ==
    IF \E i \in 1..Len(rs) : rs[i].id = id
    THEN rs[CHOOSE i \in 1..Len(rs) :
                rs[i].id = id /\ \A j \in 1..(i - 1) : rs[j].id # id]
    ELSE Null

FormSchema_noPositive(data, max) ==
    IF ~(data.quantity <= max) THEN "Maximum available quantity" ELSE ""

\* The message of the first failing check of the schema, "" when it passes.
FormSchema(data, max) ==
    IF ~(data.quantity > 0) THEN "Quantity must be positive"
    ELSE IF ~(data.quantity <= max) THEN "Maximum available quantity"
    ELSE ""

\* The guard clauses of onSubmit: the toast title of the one that returns, "" when
\* onSubmit goes on to the insert.
onSubmitGuards(selected, available, data) ==
    IF selected = Null THEN "Selection error"
    ELSE IF data.quantity > available THEN "Quantity error"
    ELSE ""

submitDisabled_ignoreSubmitting == loading \/ selectedResource = Null

\* disabled= of the submit button.
submitDisabled == loading \/ selectedResource = Null \/ isSubmitting

\* ------------------------------------------------------------------ Init
\* The component after its first render and mount effects: fetchResources has
\* sent its first request.
mountedState ==
    /\ mounted = TRUE
    /\ fetchPc = "resources"
    /\ resourcesData = <<>>
    /\ resources = <<>>
    /\ loading = TRUE
    /\ selectedResource = Null
    /\ availableQuantity = 0
    /\ formValues = [resourceId |-> "", quantity |-> 1]
    /\ isSubmitting = FALSE
    /\ effectPending = FALSE
    /\ inFlight = <<>>
    /\ lastToast = ""
    /\ submitEvents = 0
    /\ insertRequests = 0
    /\ onResourceAddedCalls = 0

ResourceRows(q1, q2) ==
    <<[id |-> ResourceIds[1], quantity |-> q1], [id |-> ResourceIds[2], quantity |-> q2]>>

\* An unconsumed row of quantity a for resource id, none when a = 0.
Outstanding(id, a) ==
    IF a = 0 THEN <<>>
    ELSE <<[resource_id |-> id, quantity |-> a, consumed |-> FALSE, project_id |-> "p0"]>>

\* Interactive specification: two resources of any quantity, the first with any
\* quantity outstanding and one consumed row, the second with no allocation.
Init ==
    /\ \E q1 \in 1..MaxQuantity, q2 \in 1..MaxQuantity : dbResources = ResourceRows(q1, q2)
    /\ \E a1 \in 0..MaxQuantity :
          dbAllocations =
              Outstanding(ResourceIds[1], a1)
              \o <<[resource_id |-> ResourceIds[1], quantity |-> 1,
                    consumed |-> TRUE, project_id |-> "p0"]>>
    /\ mountedState

\* Calculator specification: any two resources and any allocation rows.
InitCalc ==
    /\ \E q1 \in 0..CalcMaxQuantity, q2 \in 0..CalcMaxQuantity :
          dbResources = ResourceRows(q1, q2)
    /\ dbAllocations \in SeqsUpTo(AllocRows(MaxAllocQty), MaxAllocs)
    /\ mountedState

\* ----------------------------------------------------------- mount fetch
FetchResourcesOk ==
    /\ fetchPc = "resources"
    /\ resourcesData' = dbResources
    /\ fetchPc' = "allocations"
    /\ UNCHANGED <<dbVars, mounted, resources, loading, formVars, submitVars, lastToast>>

fetchFailed ==
    /\ lastToast' = "Error loading resources"
    /\ loading' = FALSE
    /\ fetchPc' = "done"
    /\ UNCHANGED <<dbVars, mounted, resourcesData, resources, formVars, submitVars>>

FetchResourcesErr ==
    /\ fetchPc = "resources"
    /\ fetchFailed

FetchAllocationsErr ==
    /\ fetchPc = "allocations"
    /\ fetchFailed

FetchAllocationsOk ==
    /\ fetchPc = "allocations"
    /\ resources' = availableResources(resourcesData, dbAllocations)
    /\ loading' = FALSE
    /\ fetchPc' = "done"
    /\ effectPending' = (mounted /\ resources' # resources)
    /\ UNCHANGED <<dbVars, mounted, resourcesData, selectedResource, availableQuantity,
                   formValues, isSubmitting, submitVars, lastToast>>

NextCalc ==
    \/ FetchResourcesOk
    \/ FetchResourcesErr
    \/ FetchAllocationsOk
    \/ FetchAllocationsErr

SpecCalc == InitCalc /\ [][NextCalc]_vars

\* ----------------------------------------------------------- user events
\* Select onValueChange={field.onChange}: stores the value in the form and, the
\* watched value having changed, schedules the watchResourceId effect.
SelectResource(id) ==
    /\ mounted
    /\ ~loading
    /\ \E i \in 1..Len(resources) : resources[i].id = id
    /\ id # formValues.resourceId
    /\ formValues' = [formValues EXCEPT !.resourceId = id]
    /\ effectPending' = TRUE
    /\ UNCHANGED <<dbVars, mounted, fetchPc, resourcesData, resources, loading,
                   selectedResource, availableQuantity, isSubmitting,
                   submitVars, lastToast>>

\* The quantity Input's onChange.
ChangeQuantity(q) ==
    /\ mounted
    /\ selectedResource # Null
    /\ q # formValues.quantity
    /\ formValues' = [formValues EXCEPT !.quantity = q]
    /\ UNCHANGED <<dbVars, mounted, fetchPc, resourcesData, resources, loading,
                   selectedResource, availableQuantity, isSubmitting,
                   effectPending, submitVars, lastToast>>

\* The effect on [watchResourceId, resources, form].
WatchEffect ==
    /\ mounted
    /\ effectPending
    /\ effectPending' = FALSE
    /\ LET resource == find(resources, formValues.resourceId)
       IN  IF formValues.resourceId # "" /\ resource # Null
           THEN /\ selectedResource' = resource
                /\ availableQuantity' = OrElse(resource.available, resource.quantity)
                /\ formValues' = [formValues EXCEPT !.quantity = 1]
           ELSE UNCHANGED <<selectedResource, availableQuantity, formValues>>
    /\ UNCHANGED <<dbVars, mounted, fetchPc, resourcesData, resources, loading,
                   isSubmitting, submitVars, lastToast>>

\* form.handleSubmit(onSubmit) up to the point where onSubmit awaits the insert:
\* the resolver of the last render validates the form values, and onSubmit runs
\* on values that pass.
handleSubmit ==
    /\ mounted
    /\ ~submitDisabled
    /\ submitEvents < MaxSubmits
    /\ submitEvents' = submitEvents + 1
    /\ LET schemaError == FormSchema(formValues, availableQuantity)
           guard == onSubmitGuards(selectedResource, availableQuantity, formValues)
       IN  IF schemaError # ""
           THEN UNCHANGED <<inFlight, insertRequests, isSubmitting, lastToast>>
           ELSE IF guard # ""
           THEN /\ lastToast' = guard
                /\ UNCHANGED <<inFlight, insertRequests, isSubmitting>>
           ELSE /\ inFlight' = Append(inFlight,
                       [project_id |-> projectId,
                        resource_id |-> formValues.resourceId,
                        quantity |-> formValues.quantity,
                        consumed |-> FALSE])
                /\ insertRequests' = insertRequests + 1
                /\ isSubmitting' = TRUE
                /\ UNCHANGED lastToast
    /\ UNCHANGED <<dbVars, mounted, fetchPc, resourcesData, resources, loading,
                   selectedResource, availableQuantity, formValues, effectPending,
                   onResourceAddedCalls>>

RemoveAt(s, i) == SubSeq(s, 1, i - 1) \o SubSeq(s, i + 1, Len(s))

InsertErr_callback(i) ==
    /\ i \in 1..Len(inFlight)
    /\ inFlight' = RemoveAt(inFlight, i)
    /\ lastToast' = "Error"
    /\ isSubmitting' = FALSE
    /\ onResourceAddedCalls' = onResourceAddedCalls + 1
    /\ UNCHANGED <<dbVars, mounted, fetchPc, resourcesData, resources, loading,
                   selectedResource, availableQuantity, formValues,
                   effectPending, submitEvents, insertRequests>>

InsertErr_staysBusy(i) ==
    /\ i \in 1..Len(inFlight)
    /\ inFlight' = RemoveAt(inFlight, i)
    /\ lastToast' = "Error"
    /\ UNCHANGED <<dbVars, mounted, fetchPc, resourcesData, resources, loading,
                   selectedResource, availableQuantity, formValues,
                   isSubmitting, effectPending, submitEvents, insertRequests,
                   onResourceAddedCalls>>

\* The insert answers with an error: throw, catch, and handleSubmit finishes.
InsertErr(i) ==
    /\ i \in 1..Len(inFlight)
    /\ inFlight' = RemoveAt(inFlight, i)
    /\ lastToast' = "Error"
    /\ isSubmitting' = FALSE
    /\ UNCHANGED <<dbVars, mounted, fetchPc, resourcesData, resources, loading,
                   selectedResource, availableQuantity, formValues,
                   effectPending, submitEvents, insertRequests, onResourceAddedCalls>>

\* The insert answers without error: the row is stored, onSubmit toasts and
\* calls onResourceAdded, and handleSubmit finishes.
InsertOk(i) ==
    /\ i \in 1..Len(inFlight)
    /\ dbAllocations' = Append(dbAllocations, inFlight[i])
    /\ inFlight' = RemoveAt(inFlight, i)
    /\ lastToast' = "Resource added"
    /\ onResourceAddedCalls' = onResourceAddedCalls + 1
    /\ isSubmitting' = FALSE
    /\ UNCHANGED <<dbResources, mounted, fetchPc, resourcesData, resources, loading,
                   selectedResource, availableQuantity, formValues,
                   effectPending, submitEvents, insertRequests>>

\* The parent unmounts the component; React drops its scheduled effects.
Teardown ==
    /\ mounted
    /\ mounted' = FALSE
    /\ effectPending' = FALSE
    /\ UNCHANGED <<dbVars, fetchPc, resourcesData, resources, loading,
                   selectedResource, availableQuantity, formValues,
                   isSubmitting, submitVars, lastToast>>

Next ==
    \/ FetchResourcesOk
    \/ FetchResourcesErr
    \/ FetchAllocationsOk
    \/ FetchAllocationsErr
    \/ \E id \in Range(ResourceIds) : SelectResource(id)
    \/ \E q \in QuantityInputs : ChangeQuantity(q)
    \/ WatchEffect
    \/ handleSubmit
    \/ \E i \in 1..Len(inFlight) : InsertOk(i)
    \/ \E i \in 1..Len(inFlight) : InsertErr(i)
    \/ Teardown

Spec == Init /\ [][Next]_vars

\* The data store answers every insert request.
FairSpec == Spec /\ WF_vars(\E i \in 1..Len(inFlight) : InsertOk(i) \/ InsertErr(i))

\* ------------------------------------------------- reference definitions
RECURSIVE SumQuantity(_, _)
\* The sum of the quantities of the rows of table t at the indices I.
SumQuantity(t, I) ==
    IF I = {} THEN 0
    ELSE LET i == CHOOSE j \in I : TRUE
         IN  t[i].quantity + SumQuantity(t, I \ {i})

\* Indices of the unconsumed rows of dbAllocations that reference resource id.
Unconsumed(id) ==
    {i \in 1..Len(dbAllocations) :
        dbAllocations[i].resource_id = id /\ dbAllocations[i].consumed = FALSE}

\* Those of them that were present at the mount fetch.
UnconsumedAtMount(id) == {i \in Unconsumed(id) : dbAllocations[i].project_id = "p0"}

\* Indices of the rows this form instance inserted.
InsertedRows == {i \in 1..Len(dbAllocations) : dbAllocations[i].project_id = projectId}

QuantityOf(id) == (CHOOSE r \in Range(dbResources) : r.id = id).quantity

AvailableAtMount(id) == QuantityOf(id) - SumQuantity(dbAllocations, UnconsumedAtMount(id))

fetchSucceeded == fetchPc = "done" /\ lastToast # "Error loading resources"

\* ---------------------------------------------------------------- claims

\* C1: every resource in the selectable list carries available = quantity minus
\* the sum of the quantities of the unconsumed allocations that reference it,
\* and no resource with available <= 0 is in the list.
C1_AvailableIsQuantityMinusUnconsumed ==
    \A i \in 1..Len(resources) :
        LET r == resources[i]
        IN  /\ r.id \in Range(ResourceIds)
            /\ r.quantity = QuantityOf(r.id)
            /\ r.available = r.quantity - SumQuantity(dbAllocations, Unconsumed(r.id))
            /\ r.available > 0

\* A fetched list that offers one resource with both a counted (unconsumed) and an
\* uncounted (consumed) allocation, the other resource being left out as exhausted.
C1_Witness ==
    /\ fetchSucceeded
    /\ Len(resources) = 1
    /\ resources[1].allocated > 0
    /\ \E i \in 1..Len(dbAllocations) :
          dbAllocations[i].resource_id = resources[1].id /\ dbAllocations[i].consumed

\* C9: the status label is a total function of (available, quantity) with exactly
\* one label per pair: "Out of Stock" when available <= 0, otherwise "Low Stock"
\* when available is strictly below 20% of quantity, otherwise "Available" (so
\* exactly 20% is "Available"); every resource in the selectable list is labelled
\* by it and is never "Out of Stock".
C9_StatusBands ==
    /\ \A id \in Range(ResourceIds) :
          LET q == QuantityOf(id)
              a == q - SumQuantity(dbAllocations, Unconsumed(id))
          IN  /\ statusOf(a, q) \in {"Out of Stock", "Low Stock", "Available"}
              /\ (statusOf(a, q) = "Out of Stock") <=> (a <= 0)
              /\ (statusOf(a, q) = "Low Stock") <=> (a > 0 /\ 5 * a < q)
              /\ (statusOf(a, q) = "Available") <=> (a > 0 /\ 5 * a >= q)
    /\ \A i \in 1..Len(resources) :
          LET r == resources[i]
          IN  /\ r.status \in {"Low Stock", "Available"}
              /\ (r.status = "Low Stock") <=> (5 * r.available < r.quantity)

\* A fetched list holding a resource whose available is exactly 20% of its quantity.
C9_Witness ==
    /\ fetchSucceeded
    /\ \E i \in 1..Len(resources) :
          /\ 5 * resources[i].available = resources[i].quantity
          /\ resources[i].status = "Available"

\* C2: every allocation this form inserts (sent or stored) has a quantity that does
\* not exceed the available quantity computed for the resource its resource_id names.
C2_InsertedWithinAvailable ==
    /\ \A i \in 1..Len(inFlight) :
          inFlight[i].quantity <= AvailableAtMount(inFlight[i].resource_id)
    /\ \A i \in InsertedRows :
          /\ dbAllocations[i].quantity <= AvailableAtMount(dbAllocations[i].resource_id)
          /\ dbAllocations[i].consumed = FALSE

\* A submit event in this state passes the schema and the guards of onSubmit.
WouldInsert ==
    /\ mounted
    /\ ~submitDisabled
    /\ FormSchema(formValues, availableQuantity) = ""
    /\ onSubmitGuards(selectedResource, availableQuantity, formValues) = ""

\* C3: in no reachable state can a submission pass validation with a quantity above
\* the available value of the resource the form's resourceId names: selection
\* resets the quantity and the enforced maximum in the same step.
C3_NoStaleSubmission ==
    WouldInsert => formValues.quantity <= AvailableAtMount(formValues.resourceId)

\* C4: a submit event that fails selection or validation (no resource selected,
\* quantity <= 0, quantity above availableQuantity) sends no insert, leaves the
\* allocation store unchanged and does not call onResourceAdded.
C4_RejectedSubmitSendsNothing ==
    [][(/\ submitEvents' = submitEvents + 1
        /\ \/ selectedResource = Null
           \/ formValues.quantity <= 0
           \/ formValues.quantity > availableQuantity)
       => /\ insertRequests' = insertRequests
          /\ inFlight' = inFlight
          /\ dbAllocations' = dbAllocations
          /\ onResourceAddedCalls' = onResourceAddedCalls]_vars

\* A submission was rejected for exceeding the bound and nothing was sent.
C4_Witness ==
    /\ mounted
    /\ selectedResource # Null
    /\ formValues.quantity > availableQuantity
    /\ submitEvents = 1
    /\ insertRequests = 0
    /\ inFlight = <<>>
    /\ InsertedRows = {}

\* C5: onResourceAdded has been called exactly once per insert that succeeded,
\* i.e. once per row this form has stored, and not for an insert that failed
\* or a submission that was rejected.
C5_CallbackOncePerStoredRow ==
    /\ onResourceAddedCalls = Cardinality(InsertedRows)
    /\ onResourceAddedCalls + Len(inFlight) <= insertRequests

\* One insert succeeded and a later one failed.
C5_Witness ==
    /\ onResourceAddedCalls = 1
    /\ insertRequests = 2
    /\ inFlight = <<>>
    /\ lastToast = "Error"

\* C6: at most one insert request of a form instance is outstanding, and while
\* it is the submitting flag is set.
C6_SingleInFlight ==
    /\ Len(inFlight) <= 1
    /\ Len(inFlight) = 1 => isSubmitting

\* An insert is outstanding and the submit button is disabled by the flag alone.
C6_Witness ==
    /\ mounted
    /\ Len(inFlight) = 1
    /\ submitEvents < MaxSubmits
    /\ ~loading
    /\ selectedResource # Null
    /\ isSubmitting
    /\ submitDisabled

FailedSubmissionStep ==
    \/ Len(inFlight') < Len(inFlight) /\ dbAllocations' = dbAllocations
    \/ submitEvents' = submitEvents + 1 /\ insertRequests' = insertRequests

\* C8: every submission returns the submitting flag to idle; a failed submission
\* leaves selectedResource, availableQuantity and resources unchanged and the
\* submit button enabled.
C8_SubmittingReturnsToIdle ==
    /\ isSubmitting ~> ~isSubmitting
    /\ [][FailedSubmissionStep =>
            /\ ~isSubmitting'
            /\ UNCHANGED <<selectedResource, availableQuantity, resources>>
            /\ mounted' => ~submitDisabled']_vars

\* An insert failed and the form can be submitted again.
C8_Witness ==
    /\ mounted
    /\ lastToast = "Error"
    /\ insertRequests = 1
    /\ inFlight = <<>>
    /\ ~submitDisabled
    /\ submitEvents < MaxSubmits

\* C10: for every resource whose unconsumed allocations were within its quantity
\* at mount, the unconsumed allocations (those plus the ones this form inserted,
\* each within the availability computed at mount) stay within its quantity.
C10_NoOverAllocation ==
    \A id \in Range(ResourceIds) :
        (/\ SumQuantity(dbAllocations, UnconsumedAtMount(id)) <= QuantityOf(id)
         /\ \A i \in InsertedRows :
               dbAllocations[i].quantity <= AvailableAtMount(dbAllocations[i].resource_id))
        => SumQuantity(dbAllocations, Unconsumed(id)) <= QuantityOf(id)
====
